---- MODULE Spec2Model ----
(***************************************************************************)
(* A model of redisgo: the keyspace store RedisDb (Set, Get, Delete,       *)
(* MemUsed) run by concurrent client connections, the Item record with its *)
(* expiry check and memory estimate, and the RESP codec (Writer.Write,     *)
(* Flush, readArray, readBulk).                                            *)
(*                                                                         *)
(* Representation notes.                                                   *)
(*  - TLC's integers are 32 bits wide.  A uint64 (memUsed) is therefore    *)
(*    held by its two's-complement representative: the integer n stands    *)
(*    for the uint64 n when n >= 0 and for 2^64 + n when n < 0, so that    *)
(*    + and - on representatives are + and - modulo 2^64.                  *)
(*  - A time.Time is held by its Unix() value counted in days, because     *)
(*    -62135596800 seconds (unixTSEpoch) is -719162 days and fits.         *)
(*  - A string of the store is a TLA+ string; a string of the codec is a   *)
(*    sequence of one-character strings (its bytes).                       *)
(***************************************************************************)
EXTENDS Integers, Sequences, FiniteSets, TLC

\* ---------------------------------------------------------------- bounds

\* The number of store calls the connections start, all together.
MaxCalls == 3
\* The last value of the clock.
MaxClock == 1

\* The client connections (one goroutine each).
Procs == {"c1", "c2"}
\* The keys and the values the connections use.
Keys == {"a", "bb"}
Vals == {"1", "22"}

\* ------------------------------------------------------------- value.go

\* const unixTSEpoch int64 = -62135596800 (seconds), here in days.
unixTSEpoch == -719162

\* time.Time{}: the zero time, whose Unix() is unixTSEpoch.
ZeroTime == unixTSEpoch

stringHeader == 16
timeSize == 24
mapEntry == 32

\* The nil *Item.
Nil == 0

\* &Item{Value: val}: every other field has its zero value.
NewItem(val) ==
    [Value |-> val, Expiration |-> ZeroTime, LastAccess |-> ZeroTime,
     AccessCount |-> 0]

\* Item.approxMemUsage(key)
approxMemUsage(i, key) ==
    (timeSize + mapEntry) + (stringHeader + Len(key)) + (stringHeader + Len(i.Value))

\* Mutant of hasExpired: the zero time is not told apart from an expiry.
hasExpiredNoSentinel(i, t) ==
    i.Expiration - t <= 0

\* Item.hasExpired(), at the time t: time.Until(Expiration) <= 0 is
\* Expiration - t <= 0.
hasExpired(i, t) ==
    i.Expiration # unixTSEpoch /\ i.Expiration - t <= 0

\* ------------------------------------------------------------ the store

VARIABLES
    store,      \* RedisDb.store: key -> address of its *Item
    heap,       \* the Items allocated so far, by address (1..Len(heap))
    memUsed,    \* RedisDb.memUsed (atomic.Uint64)
    rwm,        \* RedisDb.rwm: the set of goroutines holding the lock
    now,        \* time.Now()
    pc,         \* each connection's position in its call
    call,       \* each connection's current call: [op, key, val]
    item,       \* each connection's local item / old (an address)
    prev,       \* each connection's local prev (memUsed.Load())
    tmp,        \* each connection's read of AccessCount in AccessCount++
    ret,        \* each connection's last return value
    calls,      \* the number of calls started
    entry,      \* history: the store as each call found it on locking
    lin,        \* history: key -> value, the calls applied one at a time
    hits        \* history: per address, the Gets that returned found=true

storeVars == <<store, heap, memUsed, rwm, now, pc, call, item, prev, tmp, ret,
               calls, entry, lin, hits>>


VARIABLES
    origin,     \* who made the bytes of wire: "writer" or "peer"
    value,      \* the Value given to Writer.Write
    wbuf,       \* Writer.writer's buffer
    werr,       \* whether Write returned an error
    wire,       \* the bytes flushed to the stream, which the reader reads
    rpos,       \* the reader's position in wire
    dec,        \* the last decode: [via, start, val, err]
    cstep       \* the codec's position: "idle", "write", "flush", "read", "done"

codecVars == <<origin, value, wbuf, werr, wire, rpos, dec, cstep>>

VARIABLES
    conf        \* RedisGo.conf: the Config read at start, [maxmem, eviction, memSamples]

\* Eviction
NoEviction == "noeviction"
AllKeysRandom == "allkeys-random"
AllKeysLRU == "allkeys-lru"
AllKeysLFU == "allkeys-lfu"
VolatileRandom == "volatile-random"
VolatileLRU == "volatile-lru"
VolatileTTL == "volatile-ttl"
VolatileLFU == "volatile-lfu"

\* conf := &Config{memSamples: 5}: what readConfig returns when the file sets
\* nothing.
DefaultConfig == [maxmem |-> 0, eviction |-> "", memSamples |-> 5]

\* What readConfig returns for a file with a maxmemory and a
\* maxmemory-policy line, or with neither.
Configs ==
    {[DefaultConfig EXCEPT !.maxmem = m, !.eviction = e] :
       m \in {0, 100}, e \in {NoEviction, AllKeysLRU, VolatileTTL}}
      \cup {DefaultConfig}

NoCall == [op |-> "none", key |-> "", val |-> ""]
NoRet == [op |-> "none", item |-> Nil, ok |-> FALSE, mem |-> 0]
\* The empty map[string]*Item.
EmptyMap == [k \in {} |-> Nil]

NoEntry == [store |-> EmptyMap, heap |-> <<>>, memUsed |-> 0, now |-> 0]

\* NewRedisDb()
NewRedisDb ==
    /\ store = EmptyMap
    /\ heap = <<>>
    /\ memUsed = 0

StoreInit ==
    /\ NewRedisDb
    /\ rwm = {}
    /\ now = 0
    /\ pc = [p \in Procs |-> "idle"]
    /\ call = [p \in Procs |-> NoCall]
    /\ item = [p \in Procs |-> Nil]
    /\ prev = [p \in Procs |-> 0]
    /\ tmp = [p \in Procs |-> 0]
    /\ ret = [p \in Procs |-> NoRet]
    /\ calls = 0
    /\ entry = [p \in Procs |-> NoEntry]
    /\ lin = EmptyMap
    /\ hits = <<>>

\* Mutant of MapPut: an existing key keeps its record (set-if-absent).
MapPutIfAbsent(m, key, a) ==
    [k \in DOMAIN m \cup {key} |-> IF k = key /\ k \notin DOMAIN m THEN a ELSE m[k]]

\* m[key] = a
MapPut(m, key, a) ==
    [k \in DOMAIN m \cup {key} |-> IF k = key THEN a ELSE m[k]]

\* Mutant of MapDelete: the entry stays in the map.
MapDeleteNothing(m, key) ==
    m

\* delete(m, key)
MapDelete(m, key) ==
    [k \in DOMAIN m \ {key} |-> m[k]]

\* Mutant of Lock: a shared lock (RLock), which excludes nobody here.
LockShared(p) ==
    rwm' = rwm \cup {p}

\* rwm.Lock(): blocks while any goroutine holds the lock.
Lock(p) ==
    /\ rwm = {}
    /\ rwm' = {p}

\* defer rwm.Unlock()
Unlock(p) ==
    rwm' = rwm \ {p}

\* Mutant of SubMem: the old record's memory is not subtracted.
SubMemNothing(prevv, i, key) ==
    prevv

\* prev - old.approxMemUsage(key), on uint64
SubMem(prevv, i, key) ==
    prevv - approxMemUsage(i, key)

\* Mutant of AddMem: the new record's memory is not added.
AddMemNothing(mem, i, key) ==
    mem

\* memUsed.Add(imem)
AddMem(mem, i, key) ==
    mem + approxMemUsage(i, key)

\* The calls applied one at a time (history): Set(key, val) and Delete(key) on
\* a map from keys to values.
SeqSet(m, key, v) ==
    [k \in DOMAIN m \cup {key} |-> IF k = key THEN v ELSE m[k]]

SeqDelete(m, key) ==
    [k \in DOMAIN m \ {key} |-> m[k]]

\* What a call finds when it has taken the lock (history).
Snapshot == [store |-> store, heap |-> heap, memUsed |-> memUsed, now |-> now]

\* A connection starts a call: Set(key, val), Get(key), Delete(key) or
\* MemUsed().
Call(p) ==
    /\ pc[p] = "idle"
    /\ calls < MaxCalls
    /\ calls' = calls + 1
    /\ \E op \in {"Set", "Get", "Delete", "MemUsed"} :
         \E key \in Keys :
           \E val \in Vals :
             /\ op # "Set" => val = "1"
             /\ op = "MemUsed" => key = "a"
             /\ call' = [call EXCEPT ![p] =
                           [op |-> op,
                            key |-> IF op = "MemUsed" THEN "" ELSE key,
                            val |-> IF op = "Set" THEN val ELSE ""]]
             /\ pc' = [pc EXCEPT ![p] =
                         CASE op = "Set" -> "set_lock"
                           [] op = "Get" -> "get_lock"
                           [] op = "Delete" -> "del_lock"
                           [] OTHER -> "mem_load"]
    /\ ret' = [ret EXCEPT ![p] = NoRet]
    /\ UNCHANGED <<codecVars, conf, store, heap, memUsed, rwm, now, item, prev, tmp,
                   entry, lin, hits>>

\* The call returns: its deferred Unlock runs and its locals die.
Return(p, r) ==
    /\ Unlock(p)
    /\ ret' = [ret EXCEPT ![p] = r]
    /\ pc' = [pc EXCEPT ![p] = "idle"]
    /\ call' = [call EXCEPT ![p] = NoCall]
    /\ item' = [item EXCEPT ![p] = Nil]
    /\ prev' = [prev EXCEPT ![p] = 0]
    /\ tmp' = [tmp EXCEPT ![p] = 0]
    /\ entry' = [entry EXCEPT ![p] = NoEntry]

\* ---- RedisDb.Set

\* rdb.rwm.Lock()
SetLock(p) ==
    /\ pc[p] = "set_lock"
    /\ Lock(p)
    /\ entry' = [entry EXCEPT ![p] = Snapshot]
    /\ pc' = [pc EXCEPT ![p] = "set_old"]
    /\ UNCHANGED <<codecVars, conf, store, heap, memUsed, now, call, item, prev, tmp,
                   ret, calls, lin, hits>>

\* if old, ok := rdb.store[key]; ok
SetOld(p) ==
    /\ pc[p] = "set_old"
    /\ IF call[p].key \in DOMAIN store
         THEN /\ item' = [item EXCEPT ![p] = store[call[p].key]]
              /\ pc' = [pc EXCEPT ![p] = "set_load"]
         ELSE /\ item' = item
              /\ pc' = [pc EXCEPT ![p] = "set_new"]
    /\ UNCHANGED <<codecVars, conf, store, heap, memUsed, rwm, now, call, prev, tmp,
                   ret, calls, entry, lin, hits>>

\* prev := rdb.memUsed.Load()
SetLoad(p) ==
    /\ pc[p] = "set_load"
    /\ prev' = [prev EXCEPT ![p] = memUsed]
    /\ pc' = [pc EXCEPT ![p] = "set_sub"]
    /\ UNCHANGED <<codecVars, conf, store, heap, memUsed, rwm, now, call, item, tmp,
                   ret, calls, entry, lin, hits>>

\* curr := prev - old.approxMemUsage(key); rdb.memUsed.Store(curr)
SetSub(p) ==
    /\ pc[p] = "set_sub"
    /\ memUsed' = SubMem(prev[p], heap[item[p]], call[p].key)
    /\ pc' = [pc EXCEPT ![p] = "set_new"]
    /\ UNCHANGED <<codecVars, conf, store, heap, rwm, now, call, item, prev, tmp,
                   ret, calls, entry, lin, hits>>

\* Mutant of SetNew: an existing record is updated in place, keeping its
\* access metadata.
SetNewInPlace(p) ==
    /\ pc[p] = "set_new"
    /\ IF item[p] # Nil
         THEN /\ heap' = [heap EXCEPT ![item[p]].Value = call[p].val]
              /\ hits' = hits
              /\ item' = item
         ELSE /\ heap' = Append(heap, NewItem(call[p].val))
              /\ hits' = Append(hits, 0)
              /\ item' = [item EXCEPT ![p] = Len(heap) + 1]
    /\ memUsed' = AddMem(memUsed, NewItem(call[p].val), call[p].key)
    /\ pc' = [pc EXCEPT ![p] = "set_put"]
    /\ UNCHANGED <<codecVars, conf, store, rwm, now, call, prev, tmp, ret, calls,
                   entry, lin>>

\* item := &Item{Value: val}; imem := item.approxMemUsage(key);
\* rdb.memUsed.Add(imem)
SetNew(p) ==
    /\ pc[p] = "set_new"
    /\ heap' = Append(heap, NewItem(call[p].val))
    /\ hits' = Append(hits, 0)
    /\ item' = [item EXCEPT ![p] = Len(heap) + 1]
    /\ memUsed' = AddMem(memUsed, NewItem(call[p].val), call[p].key)
    /\ pc' = [pc EXCEPT ![p] = "set_put"]
    /\ UNCHANGED <<codecVars, conf, store, rwm, now, call, prev, tmp, ret, calls,
                   entry, lin>>

\* rdb.store[key] = item
SetPut(p) ==
    /\ pc[p] = "set_put"
    /\ store' = MapPut(store, call[p].key, item[p])
    /\ pc' = [pc EXCEPT ![p] = "set_ret"]
    /\ UNCHANGED <<codecVars, conf, heap, memUsed, rwm, now, call, item, prev, tmp,
                   ret, calls, entry, lin, hits>>

\* log.Printf(...); return
SetRet(p) ==
    /\ pc[p] = "set_ret"
    /\ Return(p, [NoRet EXCEPT !.op = "Set"])
    /\ lin' = SeqSet(lin, call[p].key, call[p].val)
    /\ UNCHANGED <<codecVars, conf, store, heap, memUsed, now, calls, hits>>

\* ---- RedisDb.Get

\* rdb.rwm.Lock()
GetLock(p) ==
    /\ pc[p] = "get_lock"
    /\ Lock(p)
    /\ entry' = [entry EXCEPT ![p] = Snapshot]
    /\ pc' = [pc EXCEPT ![p] = "get_lookup"]
    /\ UNCHANGED <<codecVars, conf, store, heap, memUsed, now, call, item, prev, tmp,
                   ret, calls, lin, hits>>

\* item, ok := rdb.store[key]; if !ok { return nil, false }
GetLookup(p) ==
    /\ pc[p] = "get_lookup"
    /\ IF call[p].key \in DOMAIN store
         THEN /\ item' = [item EXCEPT ![p] = store[call[p].key]]
              /\ pc' = [pc EXCEPT ![p] = "get_load"]
         ELSE /\ item' = item
              /\ pc' = [pc EXCEPT ![p] = "get_miss"]
    /\ UNCHANGED <<codecVars, conf, store, heap, memUsed, rwm, now, call, prev, tmp,
                   ret, calls, entry, lin, hits>>

\* Mutant of GetMiss: the early return leaves without unlocking.
GetMissNoUnlock(p) ==
    /\ pc[p] = "get_miss"
    /\ ret' = [ret EXCEPT ![p] = [NoRet EXCEPT !.op = "Get"]]
    /\ pc' = [pc EXCEPT ![p] = "idle"]
    /\ call' = [call EXCEPT ![p] = NoCall]
    /\ item' = [item EXCEPT ![p] = Nil]
    /\ prev' = [prev EXCEPT ![p] = 0]
    /\ tmp' = [tmp EXCEPT ![p] = 0]
    /\ entry' = [entry EXCEPT ![p] = NoEntry]
    /\ UNCHANGED <<codecVars, conf, store, heap, memUsed, rwm, now, calls, lin, hits>>

\* return nil, false
GetMiss(p) ==
    /\ pc[p] = "get_miss"
    /\ Return(p, [NoRet EXCEPT !.op = "Get"])
    /\ UNCHANGED <<codecVars, conf, store, heap, memUsed, now, calls, lin, hits>>

\* item.AccessCount++, the read
GetLoad(p) ==
    /\ pc[p] = "get_load"
    /\ tmp' = [tmp EXCEPT ![p] = heap[item[p]].AccessCount]
    /\ pc' = [pc EXCEPT ![p] = "get_incr"]
    /\ UNCHANGED <<codecVars, conf, store, heap, memUsed, rwm, now, call, item, prev,
                   ret, calls, entry, lin, hits>>

\* item.AccessCount++, the write
GetIncr(p) ==
    /\ pc[p] = "get_incr"
    /\ heap' = [heap EXCEPT ![item[p]].AccessCount = tmp[p] + 1]
    /\ pc' = [pc EXCEPT ![p] = "get_time"]
    /\ UNCHANGED <<codecVars, conf, store, memUsed, rwm, now, call, item, prev, tmp,
                   ret, calls, entry, lin, hits>>

\* Mutant of GetTime: the time is written to the record's expiry.
GetTimeAsExpiration(p) ==
    /\ pc[p] = "get_time"
    /\ heap' = [heap EXCEPT ![item[p]].Expiration = now]
    /\ pc' = [pc EXCEPT ![p] = "get_ret"]
    /\ UNCHANGED <<codecVars, conf, store, memUsed, rwm, now, call, item, prev, tmp,
                   ret, calls, entry, lin, hits>>

\* item.LastUsedAt = time.Now() (the field Item declares as LastAccess)
GetTime(p) ==
    /\ pc[p] = "get_time"
    /\ heap' = [heap EXCEPT ![item[p]].LastAccess = now]
    /\ pc' = [pc EXCEPT ![p] = "get_ret"]
    /\ UNCHANGED <<codecVars, conf, store, memUsed, rwm, now, call, item, prev, tmp,
                   ret, calls, entry, lin, hits>>

\* log.Printf(...); return item, true
GetRet(p) ==
    /\ pc[p] = "get_ret"
    /\ Return(p, [NoRet EXCEPT !.op = "Get", !.item = item[p], !.ok = TRUE])
    /\ hits' = [hits EXCEPT ![item[p]] = @ + 1]
    /\ UNCHANGED <<codecVars, conf, store, heap, memUsed, now, calls, lin>>

\* ---- RedisDb.Delete

\* rdb.rwm.Lock()
DeleteLock(p) ==
    /\ pc[p] = "del_lock"
    /\ Lock(p)
    /\ entry' = [entry EXCEPT ![p] = Snapshot]
    /\ pc' = [pc EXCEPT ![p] = "del_lookup"]
    /\ UNCHANGED <<codecVars, conf, store, heap, memUsed, now, call, item, prev, tmp,
                   ret, calls, lin, hits>>

\* item, ok := rdb.store[key]; if !ok { return }
DeleteLookup(p) ==
    /\ pc[p] = "del_lookup"
    /\ IF call[p].key \in DOMAIN store
         THEN /\ item' = [item EXCEPT ![p] = store[call[p].key]]
              /\ pc' = [pc EXCEPT ![p] = "del_load"]
         ELSE /\ item' = item
              /\ pc' = [pc EXCEPT ![p] = "del_ret"]
    /\ UNCHANGED <<codecVars, conf, store, heap, memUsed, rwm, now, call, prev, tmp,
                   ret, calls, entry, lin, hits>>

\* prev := rdb.memUsed.Load()
DeleteLoad(p) ==
    /\ pc[p] = "del_load"
    /\ prev' = [prev EXCEPT ![p] = memUsed]
    /\ pc' = [pc EXCEPT ![p] = "del_sub"]
    /\ UNCHANGED <<codecVars, conf, store, heap, memUsed, rwm, now, call, item, tmp,
                   ret, calls, entry, lin, hits>>

\* curr := prev - item.approxMemUsage(key); rdb.memUsed.Store(curr)
DeleteSub(p) ==
    /\ pc[p] = "del_sub"
    /\ memUsed' = SubMem(prev[p], heap[item[p]], call[p].key)
    /\ pc' = [pc EXCEPT ![p] = "del_delete"]
    /\ UNCHANGED <<codecVars, conf, store, heap, rwm, now, call, item, prev, tmp,
                   ret, calls, entry, lin, hits>>

\* delete(rdb.store, key)
DeleteDelete(p) ==
    /\ pc[p] = "del_delete"
    /\ store' = MapDelete(store, call[p].key)
    /\ pc' = [pc EXCEPT ![p] = "del_ret"]
    /\ UNCHANGED <<codecVars, conf, heap, memUsed, rwm, now, call, item, prev, tmp,
                   ret, calls, entry, lin, hits>>

\* return (after the log line, or early when the key is absent)
DeleteRet(p) ==
    /\ pc[p] = "del_ret"
    /\ Return(p, [NoRet EXCEPT !.op = "Delete"])
    /\ lin' = SeqDelete(lin, call[p].key)
    /\ UNCHANGED <<codecVars, conf, store, heap, memUsed, now, calls, hits>>

\* ---- RedisDb.MemUsed

\* Mutant of MemUsed: the counter is read under the store's lock.
MemUsedLocked(p) ==
    /\ pc[p] = "mem_load"
    /\ rwm = {}
    /\ ret' = [ret EXCEPT ![p] = [NoRet EXCEPT !.op = "MemUsed", !.mem = memUsed]]
    /\ pc' = [pc EXCEPT ![p] = "idle"]
    /\ call' = [call EXCEPT ![p] = NoCall]
    /\ UNCHANGED <<codecVars, conf, store, heap, memUsed, rwm, now, item, prev, tmp,
                   calls, entry, lin, hits>>

\* return rdb.memUsed.Load()
MemUsed(p) ==
    /\ pc[p] = "mem_load"
    /\ ret' = [ret EXCEPT ![p] = [NoRet EXCEPT !.op = "MemUsed", !.mem = memUsed]]
    /\ pc' = [pc EXCEPT ![p] = "idle"]
    /\ call' = [call EXCEPT ![p] = NoCall]
    /\ UNCHANGED <<codecVars, conf, store, heap, memUsed, rwm, now, item, prev, tmp,
                   calls, entry, lin, hits>>

\* Time passes.
Tick ==
    /\ now < MaxClock
    /\ now' = now + 1
    /\ UNCHANGED <<codecVars, conf, store, heap, memUsed, rwm, pc, call, item, prev,
                   tmp, ret, calls, entry, lin, hits>>

Set(p) ==
    \/ SetLock(p)
    \/ SetOld(p)
    \/ SetLoad(p)
    \/ SetSub(p)
    \/ SetNew(p)
    \/ SetPut(p)
    \/ SetRet(p)

Get(p) ==
    \/ GetLock(p)
    \/ GetLookup(p)
    \/ GetMiss(p)
    \/ GetLoad(p)
    \/ GetIncr(p)
    \/ GetTime(p)
    \/ GetRet(p)

Delete(p) ==
    \/ DeleteLock(p)
    \/ DeleteLookup(p)
    \/ DeleteLoad(p)
    \/ DeleteSub(p)
    \/ DeleteDelete(p)
    \/ DeleteRet(p)

StoreNext ==
    \/ \E p \in Procs : Call(p)
    \/ \E p \in Procs : Set(p)
    \/ \E p \in Procs : Get(p)
    \/ \E p \in Procs : Delete(p)
    \/ \E p \in Procs : MemUsed(p)
    \/ Tick

\* ------------------------------------------------------- the RESP codec

\* The longest bulk payload and the longest array the write side is given.
MaxBulkLen == 2
MaxArrayLen == 2

\* ValueType
String == "+"
Array == "*"
Bulk == "$"
Integer == ":"
Null == ""
Error == "-"

CRLF == <<"\r", "\n">>

\* Value{}: the zero Value (its Type is Null).
ZeroValue ==
    [Type |-> Null, Bulk |-> <<>>, Str |-> <<>>, Int |-> 0, Err |-> <<>>,
     Array |-> <<>>]

DigitChars == <<"0", "1", "2", "3", "4", "5", "6", "7", "8", "9">>

IsDigit(c) == \E d \in 1..10 : DigitChars[d] = c

DigitVal(c) == (CHOOSE d \in 1..10 : DigitChars[d] = c) - 1

\* The decimal digits of n >= 0, as fmt's %d writes them.
RECURSIVE FormatUint(_)
FormatUint(n) ==
    IF n < 10 THEN <<DigitChars[n + 1]>>
    ELSE FormatUint(n \div 10) \o <<DigitChars[(n % 10) + 1]>>

\* fmt's %d
FormatInt(n) ==
    IF n < 0 THEN <<"-">> \o FormatUint(-n) ELSE FormatUint(n)

\* The value of a run of decimal digits.
RECURSIVE ParseDigits(_, _)
ParseDigits(str, acc) ==
    IF str = <<>> THEN acc
    ELSE ParseDigits(Tail(str), acc * 10 + DigitVal(Head(str)))

\* strconv.Atoi: an optional sign, then one decimal digit or more.
Atoi(str) ==
    LET signed == str # <<>> /\ Head(str) \in {"+", "-"}
        digits == IF signed THEN Tail(str) ELSE str
    IN IF digits = <<>> \/ \E i \in 1..Len(digits) : ~IsDigit(digits[i])
         THEN [n |-> 0, err |-> TRUE]
         ELSE [n |-> IF signed /\ Head(str) = "-"
                       THEN -ParseDigits(digits, 0)
                       ELSE ParseDigits(digits, 0),
               err |-> FALSE]

\* strings.TrimSuffix(line, "\r\n")
TrimSuffixCRLF(line) ==
    IF Len(line) >= 2 /\ SubSeq(line, Len(line) - 1, Len(line)) = CRLF
      THEN SubSeq(line, 1, Len(line) - 2)
      ELSE line

\* Mutant of readLine: the end of the stream is taken for the end of the line.
readLineIgnoreEOF(s, pos) ==
    LET ends == {i \in pos..Len(s) : s[i] = "\n"}
    IN IF ends = {}
         THEN [line |-> TrimSuffixCRLF(SubSeq(s, pos, Len(s))), err |-> FALSE,
               pos |-> Len(s) + 1]
         ELSE LET e == CHOOSE i \in ends : \A j \in ends : i <= j
              IN [line |-> TrimSuffixCRLF(SubSeq(s, pos, e)), err |-> FALSE,
                  pos |-> e + 1]

\* readLine on the stream s read up to (not including) position pos:
\* r.ReadString('\n') takes the bytes through the first '\n', or fails at the
\* end of the stream having taken what was left.
readLine(s, pos) ==
    LET ends == {i \in pos..Len(s) : s[i] = "\n"}
    IN IF ends = {}
         THEN [line |-> <<>>, err |-> TRUE, pos |-> Len(s) + 1]
         ELSE LET e == CHOOSE i \in ends : \A j \in ends : i <= j
              IN [line |-> TrimSuffixCRLF(SubSeq(s, pos, e)), err |-> FALSE,
                  pos |-> e + 1]

\* Mutant of readBulk: the payload is taken up to the line's end instead of by
\* its length.
readBulkByLine(s, pos) ==
    LET l == readLine(s, pos)
        n == Atoi(Tail(l.line))
        p == readLine(s, l.pos)
    IN IF l.err THEN [val |-> ZeroValue, err |-> "err", pos |-> l.pos]
       ELSE IF Len(l.line) = 0 \/ l.line[1] # "$"
         THEN [val |-> ZeroValue, err |-> "err", pos |-> l.pos]
       ELSE IF n.err THEN [val |-> ZeroValue, err |-> "err", pos |-> l.pos]
       ELSE IF n.n = -1 THEN [val |-> ZeroValue, err |-> "nil", pos |-> l.pos]
       ELSE IF p.err THEN [val |-> ZeroValue, err |-> "err", pos |-> p.pos]
       ELSE [val |-> [ZeroValue EXCEPT !.Type = Bulk, !.Bulk = p.line],
             err |-> "nil", pos |-> p.pos]

\* Value.readBulk on the stream s from pos: the value, the outcome ("nil": no
\* error, "err": an error returned, "panic": a run-time panic) and the
\* reader's new position.
readBulk(s, pos) ==
    LET l == readLine(s, pos)
        n == Atoi(Tail(l.line))
        bulkLen == n.n
    IN IF l.err THEN [val |-> ZeroValue, err |-> "err", pos |-> l.pos]
       ELSE IF Len(l.line) = 0 \/ l.line[1] # "$"
         THEN [val |-> ZeroValue, err |-> "err", pos |-> l.pos]
       ELSE IF n.err THEN [val |-> ZeroValue, err |-> "err", pos |-> l.pos]
       ELSE IF bulkLen = -1 THEN [val |-> ZeroValue, err |-> "nil", pos |-> l.pos]
       \* make([]byte, bulkLen+2) with a negative length
       ELSE IF bulkLen + 2 < 0
         THEN [val |-> ZeroValue, err |-> "panic", pos |-> l.pos]
       \* io.ReadFull(r, buf)
       ELSE IF Len(s) - l.pos + 1 < bulkLen + 2
         THEN [val |-> ZeroValue, err |-> "err", pos |-> Len(s) + 1]
       \* buf[:bulkLen] with bulkLen = -2
       ELSE IF bulkLen < 0
         THEN [val |-> ZeroValue, err |-> "panic", pos |-> l.pos + bulkLen + 2]
       ELSE [val |-> [ZeroValue EXCEPT
                        !.Type = Bulk,
                        !.Bulk = SubSeq(s, l.pos, l.pos + bulkLen - 1)],
             err |-> "nil", pos |-> l.pos + bulkLen + 2]

\* The loop of readArray: elements i..arrLen of v.Array, read from pos.
RECURSIVE readElems(_, _, _, _, _)
readElems(v, s, pos, i, arrLen) ==
    IF i > arrLen
      THEN [val |-> [v EXCEPT !.Type = Array], err |-> "nil", pos |-> pos]
      ELSE LET b == readBulk(s, pos)
           IN IF b.err # "nil"
                THEN [val |-> v, err |-> b.err, pos |-> b.pos]
                ELSE readElems([v EXCEPT !.Array[i] = b.val], s, b.pos, i + 1, arrLen)

\* Value.readArray, on the receiver v.
readArray(v, s, pos) ==
    LET l == readLine(s, pos)
        n == Atoi(Tail(l.line))
        arrLen == n.n
    IN IF l.err THEN [val |-> v, err |-> "err", pos |-> l.pos]
       ELSE IF Len(l.line) = 0 \/ l.line[1] # "*"
         THEN [val |-> v, err |-> "err", pos |-> l.pos]
       ELSE IF n.err THEN [val |-> v, err |-> "err", pos |-> l.pos]
       \* make([]Value, arrLen) with a negative length
       ELSE IF arrLen < 0 THEN [val |-> v, err |-> "panic", pos |-> l.pos]
       ELSE readElems([v EXCEPT !.Array = [i \in 1..arrLen |-> ZeroValue]],
                      s, l.pos, 1, arrLen)

\* Writer.Write(val) on the buffer buf: the buffer after it and whether it
\* returned an error.  The buffered writes themselves do not fail here.
RECURSIVE Write(_, _)
RECURSIVE WriteElems(_, _, _)
Write(buf, v) ==
    CASE v.Type = String ->
           [buf |-> buf \o <<"+">> \o v.Str \o CRLF, err |-> FALSE]
      [] v.Type = Array ->
           WriteElems(buf \o <<"*">> \o FormatInt(Len(v.Array)) \o CRLF, v.Array, 1)
      [] v.Type = Bulk ->
           [buf |-> buf \o <<"$">> \o FormatInt(Len(v.Bulk)) \o CRLF \o v.Bulk \o CRLF,
            err |-> FALSE]
      [] v.Type = Integer ->
           [buf |-> buf \o <<":">> \o FormatInt(v.Int) \o CRLF, err |-> FALSE]
      [] v.Type = Null ->
           [buf |-> buf \o <<"$", "-", "1">> \o CRLF, err |-> FALSE]
      [] v.Type = Error ->
           [buf |-> buf \o <<"-">> \o v.Err \o CRLF, err |-> FALSE]
      [] OTHER -> [buf |-> buf, err |-> TRUE]

\* for i := range val.Array { if err = w.Write(&val.Array[i]); err != nil ... }
WriteElems(buf, arr, i) ==
    IF i > Len(arr) THEN [buf |-> buf, err |-> FALSE]
    ELSE LET w == Write(buf, arr[i])
         IN IF w.err THEN w ELSE WriteElems(w.buf, arr, i + 1)

\* The values of each variant.
StrValue(t) == [ZeroValue EXCEPT !.Type = String, !.Str = t]
BulkValue(b) == [ZeroValue EXCEPT !.Type = Bulk, !.Bulk = b]
IntValue(n) == [ZeroValue EXCEPT !.Type = Integer, !.Int = n]
ErrValue(t) == [ZeroValue EXCEPT !.Type = Error, !.Err = t]
ArrayValue(a) == [ZeroValue EXCEPT !.Type = Array, !.Array = a]
NullValue == ZeroValue

\* The sequences over S of length at most n.
SeqsUpTo(S, n) == UNION {[1..k -> S] : k \in 0..n}

\* The bytes of the bulk payloads written.
PayloadBytes == {"a", "\r", "\n"}

\* The values that are not arrays.
ScalarValues ==
    {BulkValue(b) : b \in SeqsUpTo(PayloadBytes, MaxBulkLen)}
      \cup {NullValue}
      \cup {StrValue(<<>>), StrValue(<<"O", "K">>)}
      \cup {IntValue(0), IntValue(7), IntValue(-12), IntValue(105)}
      \cup {ErrValue(<<"E">>)}

\* A Value whose Type is none of the ValueType constants.
InvalidValue == [ZeroValue EXCEPT !.Type = "?"]

\* The elements the arrays written are made of.
ElemValues ==
    {BulkValue(<<>>), BulkValue(<<"a">>), BulkValue(CRLF), NullValue,
     IntValue(7), StrValue(<<"O", "K">>), ArrayValue(<<>>),
     ArrayValue(<<BulkValue(<<"a">>)>>), InvalidValue}

\* The values handed to Writer.Write.
Values ==
    ScalarValues \cup {InvalidValue}
      \cup {ArrayValue(a) : a \in SeqsUpTo(ElemValues, MaxArrayLen)}

\* The byte streams a peer sends that are not encodings of Values: a header
\* line (a sigil, a count, a line end) followed by more bytes.
RawSigils == {<<"*">>, <<"$">>, <<"+">>, <<>>}
RawCounts ==
    {<<>>, <<"0">>, <<"1">>, <<"2">>, <<"+", "1">>, <<"0", "1">>,
     <<"-", "1">>, <<"-", "2">>, <<"-", "3">>, <<"-">>, <<"x">>, <<"1", "x">>,
     <<"1", " ">>}
RawLineEnds == {CRLF, <<"\n">>, <<>>}
RawTails ==
    {<<>>, <<"a">>, <<"a", "\r", "\n">>, <<"a", "b", "\r", "\n">>,
     <<"\r", "\n">>, <<"a", "x", "y">>,
     <<"$", "1", "\r", "\n", "a", "\r", "\n">>,
     <<"$", "1", "\r", "\n", "a">>,
     <<"$", "-", "1", "\r", "\n", "$", "0", "\r", "\n", "\r", "\n">>,
     <<"+", "a", "\r", "\n">>}
RawStreams ==
    {g \o c \o e \o t : g \in RawSigils, c \in RawCounts, e \in RawLineEnds,
                        t \in RawTails}

\* The bytes w.Write(&v) and w.Flush() put on the wire, starting from an
\* empty buffer.
Encoding(v) == Write(<<>>, v).buf

\* The streams that end early: what readBulk is sent for a Bulk String or a
\* Null, and what readArray is sent for an Array of those, cut before its
\* last byte.
CutBulks ==
    UNION {{SubSeq(Encoding(v), 1, k) : k \in 0..(Len(Encoding(v)) - 1)} :
             v \in {w \in Values : w.Type \in {Bulk, Null}}}
CutArrays ==
    UNION {{SubSeq(Encoding(v), 1, k) : k \in 0..(Len(Encoding(v)) - 1)} :
             v \in {w \in Values :
                      /\ w.Type = Array
                      /\ \A i \in 1..Len(w.Array) : w.Array[i].Type \in {Bulk, Null}}}

NoDec == [via |-> "none", start |-> 0, val |-> ZeroValue, err |-> "nil"]

\* No codec at work.
CodecIdle ==
    /\ origin = "writer"
    /\ value = ZeroValue
    /\ wbuf = <<>>
    /\ werr = FALSE
    /\ wire = <<>>
    /\ rpos = 1
    /\ dec = NoDec
    /\ cstep = "idle"

\* Either a value is about to be written, or a peer's bytes are there to read.
CodecInit ==
    /\ wbuf = <<>>
    /\ werr = FALSE
    /\ rpos = 1
    /\ dec = NoDec
    /\ \/ /\ origin = "writer"
          /\ value \in Values
          /\ wire = <<>>
          /\ cstep = "write"
       \/ /\ origin = "peer"
          /\ value = ZeroValue
          /\ wire \in RawStreams \cup CutBulks \cup CutArrays
          /\ cstep = "read"

\* w.Write(&val)
DoWrite ==
    /\ cstep = "write"
    /\ LET w == Write(wbuf, value)
       IN /\ wbuf' = w.buf
          /\ werr' = w.err
    /\ cstep' = "flush"
    /\ UNCHANGED <<storeVars, conf, origin, value, wire, rpos, dec>>

\* w.Flush()
DoFlush ==
    /\ cstep = "flush"
    /\ wire' = wire \o wbuf
    /\ wbuf' = <<>>
    /\ cstep' = "read"
    /\ UNCHANGED <<storeVars, conf, origin, value, werr, rpos, dec>>

\* The reader's next step after a decode: a decode that failed ends the
\* reading.
AfterDecode(r) == IF r.err = "nil" THEN "read" ELSE "done"

\* var v Value; err := v.readArray(r)
DoReadArray ==
    /\ cstep = "read"
    /\ LET r == readArray(ZeroValue, wire, rpos)
       IN /\ dec' = [via |-> "readArray", start |-> rpos, val |-> r.val, err |-> r.err]
          /\ rpos' = r.pos
          /\ cstep' = AfterDecode(r)
    /\ UNCHANGED <<storeVars, conf, origin, value, wbuf, werr, wire>>

\* val, err := v.readBulk(r)
DoReadBulk ==
    /\ cstep = "read"
    /\ LET r == readBulk(wire, rpos)
       IN /\ dec' = [via |-> "readBulk", start |-> rpos, val |-> r.val, err |-> r.err]
          /\ rpos' = r.pos
          /\ cstep' = AfterDecode(r)
    /\ UNCHANGED <<storeVars, conf, origin, value, wbuf, werr, wire>>

CodecNext ==
    \/ DoWrite
    \/ DoFlush
    \/ DoReadArray
    \/ DoReadBulk

vars == <<storeVars, codecVars, conf>>

\* A caller that holds the *Item a Get returned (the store's own record, not
\* a copy: Item's fields are exported) sets its expiry.
CallerSetExpiration(p) ==
    /\ pc[p] = "idle"
    /\ ret[p].op = "Get"
    /\ ret[p].ok
    /\ \E t \in 0..MaxClock :
         /\ heap[ret[p].item].Expiration # t
         /\ heap' = [heap EXCEPT ![ret[p].item].Expiration = t]
    /\ UNCHANGED <<codecVars, conf, store, memUsed, rwm, now, pc, call, item, prev,
                   tmp, ret, calls, entry, lin, hits>>

AliasNext ==
    \/ StoreNext
    \/ \E p \in Procs : CallerSetExpiration(p)

Init == StoreInit /\ CodecIdle /\ conf = DefaultConfig

Next == StoreNext

Spec == Init /\ [][Next]_vars

\* The codec alone: a value written, flushed and read back, or a peer's bytes
\* read.
CodecSpecInit == StoreInit /\ CodecInit /\ conf = DefaultConfig

CodecSpec == CodecSpecInit /\ [][CodecNext]_vars

\* The store of a server started with any of the configurations.
ConfInit == StoreInit /\ CodecIdle /\ conf \in Configs

ConfSpec == ConfInit /\ [][Next]_vars

\* The steps of the goroutine p inside a call it has made.
Run(p) == Set(p) \/ Get(p) \/ Delete(p) \/ MemUsed(p)

\* The Go scheduler runs every runnable goroutine: a call that can take its
\* next step takes it.  (Callers are not obliged to make calls.)
Fairness == \A p \in Procs : WF_vars(Run(p))

\* The calls alone: the clock, whose value decides no step of a call, stands
\* still.
FairNext ==
    \/ \E p \in Procs : Call(p)
    \/ \E p \in Procs : Set(p)
    \/ \E p \in Procs : Get(p)
    \/ \E p \in Procs : Delete(p)
    \/ \E p \in Procs : MemUsed(p)

\* The store under fair scheduling.
FairSpec == Init /\ [][FairNext]_vars /\ Fairness

\* The store with callers that write through the records Get hands out.
SpecAlias == Init /\ [][AliasNext]_vars

\* ------------------------------------------------------------ the claims

\* The sum of approxMemUsage(key, record) over the keys of the map st, whose
\* records live in hp.
RECURSIVE SumOver(_, _, _)
SumOver(ks, st, hp) ==
    IF ks = {} THEN 0
    ELSE LET k == CHOOSE x \in ks : TRUE
         IN approxMemUsage(hp[st[k]], k) + SumOver(ks \ {k}, st, hp)

SumMem(st, hp) == SumOver(DOMAIN st, st, hp)

\* The record the map st holds for the key k.
Rec(st, hp, k) == hp[st[k]]

\* C1: whenever no caller is inside a store operation, MemUsed() is the sum
\* of approxMemUsage(key, record) over exactly the keys in the store.
C1_MemoryAccounting ==
    rwm = {} => memUsed = SumMem(store, heap)

\* C1's case: Set("a","1") then Set("a","22"); the total counts "22" alone.
C1_Witness ==
    /\ rwm = {}
    /\ calls = 2
    /\ Len(heap) = 2
    /\ heap[1].Value = "1"
    /\ DOMAIN store = {"a"}
    /\ Rec(store, heap, "a").Value = "22"
    /\ memUsed = approxMemUsage(heap[2], "a")
    /\ memUsed # approxMemUsage(heap[1], "a") + approxMemUsage(heap[2], "a")

\* The positions of Set between its Lock and its return.
SetBody == {"set_old", "set_load", "set_sub", "set_new", "set_put", "set_ret"}

\* C2: when Set(key, val) returns, the store holds a record for key whose
\* value is val and every other key has the record it had; Set, once it has
\* the lock, can always take its next step (it never fails); and a Get that
\* follows a completed Set of its key, with no Delete of the key between,
\* finds the key with that value.
C2_SetOverwrites ==
    \A p \in Procs :
      /\ pc[p] = "set_ret" =>
           /\ call[p].key \in DOMAIN store
           /\ Rec(store, heap, call[p].key).Value = call[p].val
           /\ DOMAIN store = DOMAIN entry[p].store \cup {call[p].key}
           /\ \A k \in DOMAIN store \ {call[p].key} :
                /\ store[k] = entry[p].store[k]
                /\ heap[store[k]] = entry[p].heap[store[k]]
      /\ pc[p] \in SetBody => ENABLED Set(p)
      /\ pc[p] = "get_miss" => call[p].key \notin DOMAIN lin
      /\ pc[p] = "get_ret" =>
           /\ call[p].key \in DOMAIN lin
           /\ heap[item[p]].Value = lin[call[p].key]

\* C2's case: a Set that overwrites a present key is about to return while
\* another key is in the store.
C2_Witness ==
    \E p \in Procs :
      /\ pc[p] = "set_ret"
      /\ call[p].key \in DOMAIN entry[p].store
      /\ Rec(entry[p].store, entry[p].heap, call[p].key).Value # call[p].val
      /\ DOMAIN store # {call[p].key}

\* C3: a Get of a present key whose record has an expiry at or before the
\* time of the call returns found=false, removes the key and deducts the
\* record's memory, all within the call.
C3_PassiveExpiry ==
    \A p \in Procs :
      (/\ pc[p] \in {"get_miss", "get_ret"}
       /\ call[p].key \in DOMAIN entry[p].store
       /\ hasExpired(Rec(entry[p].store, entry[p].heap, call[p].key), entry[p].now))
      => /\ pc[p] = "get_miss"
         /\ call[p].key \notin DOMAIN store
         /\ memUsed = entry[p].memUsed
                        - approxMemUsage(Rec(entry[p].store, entry[p].heap, call[p].key),
                                         call[p].key)

\* The connections that have counted a hit on the record a and not returned.
Counted(a) == {p \in Procs : pc[p] \in {"get_time", "get_ret"} /\ item[p] = a}

\* C4: no hit is lost: a record's accessCount is the number of Gets that
\* returned it (found=true) plus those that have counted and not yet
\* returned; a Get of a key that was present when it took the lock does not
\* miss; and a Get about to return a record holds the lock and has set the
\* record's lastAccess.
C4_NoLostUpdates ==
    /\ \A a \in 1..Len(heap) :
         heap[a].AccessCount = hits[a] + Cardinality(Counted(a))
    /\ \A p \in Procs :
         /\ pc[p] = "get_miss" => call[p].key \notin DOMAIN entry[p].store
         /\ pc[p] = "get_ret" =>
              /\ p \in rwm
              /\ heap[item[p]].LastAccess # ZeroTime
              /\ item[p] \in DOMAIN entry[p].heap
              /\ heap[item[p]].AccessCount = entry[p].heap[item[p]].AccessCount + 1

\* C4's case: both connections have read the same record, which counts two.
C4_Witness ==
    \E a \in 1..Len(heap) :
      /\ rwm = {}
      /\ \A p \in Procs : ret[p].op = "Get" /\ ret[p].ok /\ ret[p].item = a
      /\ hits[a] = 2
      /\ heap[a].AccessCount = 2

\* The positions between a call's Lock and its return.
Critical ==
    SetBody \cup {"get_lookup", "get_miss", "get_load", "get_incr", "get_time", "get_ret"}
            \cup {"del_lookup", "del_load", "del_sub", "del_delete", "del_ret"}

\* C5: at most one call is inside its critical section, and it is the lock's
\* holder; whenever the lock is free the store holds exactly the keys and
\* values that the calls, applied one at a time in the order their critical
\* sections ran, leave (lin); and a Get finds its key exactly when those calls
\* left it there.
C5_Linearizable ==
    /\ Cardinality({p \in Procs : pc[p] \in Critical}) <= 1
    /\ rwm = {p \in Procs : pc[p] \in Critical}
    /\ rwm = {} =>
         /\ DOMAIN store = DOMAIN lin
         /\ \A k \in DOMAIN store : Rec(store, heap, k).Value = lin[k]
    /\ \A p \in Procs :
         pc[p] \in {"get_miss", "get_ret"} =>
           (pc[p] = "get_ret") = (call[p].key \in DOMAIN lin)

\* C5's case: one connection is inside Set while the other waits for the
\* lock to delete the same key.
C5_Witness ==
    \E p, q \in Procs :
      /\ pc[p] = "set_put"
      /\ pc[q] = "del_lock"
      /\ call[p].key = call[q].key
      /\ call[p].key \in DOMAIN store

\* The accounted total before the Set that p is in, and after it.
TotalBefore(p) == SumMem(entry[p].store, entry[p].heap)

TotalAfterSet(p) ==
    SumOver(DOMAIN entry[p].store \ {call[p].key}, entry[p].store, entry[p].heap)
      + approxMemUsage([Value |-> call[p].val], call[p].key)

\* C6: while a Set overwrites a present key, every value MemUsed() returns is
\* the accounted total before that Set or the one after it.
C6_OverwriteOneStep ==
    [][\A q \in Procs :
         (pc[q] = "mem_load" /\ pc'[q] = "idle") =>
           \A p \in Procs :
             (/\ pc[p] \in SetBody
              /\ call[p].key \in DOMAIN entry[p].store)
             => ret'[q].mem \in {TotalBefore(p), TotalAfterSet(p)}]_vars

\* C7: when Delete(key) is about to return, a key that was present is gone,
\* MemUsed() is lower by exactly its record's approxMemUsage and every other
\* key has the record it had; for a key that was absent (as after a first
\* Delete) the key set, every record and MemUsed() are as they were.
C7_DeleteFrame ==
    \A p \in Procs :
      pc[p] = "del_ret" =>
        /\ DOMAIN store = DOMAIN entry[p].store \ {call[p].key}
        /\ \A k \in DOMAIN store : store[k] = entry[p].store[k]
        /\ heap = entry[p].heap
        /\ memUsed =
             IF call[p].key \in DOMAIN entry[p].store
               THEN entry[p].memUsed
                      - approxMemUsage(Rec(entry[p].store, entry[p].heap, call[p].key),
                                       call[p].key)
               ELSE entry[p].memUsed
        /\ call[p].key \notin DOMAIN entry[p].store => store = entry[p].store

\* C7's case: Delete has removed a present key and another key stays.
C7_Witness ==
    \E p \in Procs :
      /\ pc[p] = "del_ret"
      /\ call[p].key \in DOMAIN entry[p].store
      /\ store # EmptyMap

\* C8: the step of Set that installs its record installs a fresh one
\* (accessCount 0, lastAccess zero); no step of Set or Delete changes a record
\* there is; and while a key keeps its record, its accessCount does not
\* decrease.
C8_AccessMetadata ==
    [][/\ \A p \in Procs :
            (pc[p] = "set_put" /\ pc'[p] = "set_ret") =>
              /\ Rec(store', heap', call[p].key).AccessCount = 0
              /\ Rec(store', heap', call[p].key).LastAccess = ZeroTime
       /\ \A p \in Procs :
            (call[p].op \in {"Set", "Delete"} /\ pc'[p] # pc[p]) =>
              \A a \in 1..Len(heap) : heap'[a] = heap[a]
       /\ \A k \in DOMAIN store \cap DOMAIN store' :
            store'[k] = store[k] =>
              heap'[store[k]].AccessCount >= heap[store[k]].AccessCount]_vars

\* C8's case: a Set has replaced a record that had been read.
C8_Witness ==
    \E p \in Procs :
      /\ pc[p] = "set_ret"
      /\ call[p].key \in DOMAIN entry[p].store
      /\ Rec(entry[p].store, entry[p].heap, call[p].key).AccessCount > 0
      /\ Rec(store, heap, call[p].key).AccessCount = 0

\* The decoder that reads a value of v's variant: readArray reads arrays,
\* readBulk the rest.
DecoderFor(v) == IF v.Type = Array THEN "readArray" ELSE "readBulk"

\* The first decode of what the Writer wrote and flushed.
FirstDecode ==
    /\ origin = "writer"
    /\ dec.via # "none"
    /\ dec.start = 1

\* C9: for every value v of every variant, decoding the bytes of Write(v) and
\* Flush gives v.
C9_RoundTrip ==
    (FirstDecode /\ dec.via = DecoderFor(value))
    => (dec.err = "nil" /\ dec.val = value)

\* A bulk string, Null, or an array whose elements are bulk strings or Null.
BulkShaped(v) ==
    \/ v.Type \in {Bulk, Null}
    \/ /\ v.Type = Array
       /\ \A i \in 1..Len(v.Array) : v.Array[i].Type \in {Bulk, Null}

\* C9, amended: for every bulk string (empty, or of any bytes), Null, and
\* array of bulk strings and Nulls (empty too), decoding the bytes of Write(v)
\* and Flush gives v and leaves nothing unread.
C9_RoundTripBulkShaped ==
    (FirstDecode /\ dec.via = DecoderFor(value) /\ BulkShaped(value))
    => (/\ ~werr
        /\ dec.err = "nil"
        /\ dec.val = value
        /\ rpos = Len(wire) + 1)

\* C9's case: an array of a bulk string holding CR LF and a Null, read back.
C9_Witness ==
    /\ FirstDecode
    /\ value = ArrayValue(<<BulkValue(CRLF), NullValue>>)
    /\ dec.via = "readArray"
    /\ dec.err = "nil"
    /\ dec.val = value

\* A count that is a decimal integer: an optional sign and digits.
IsDecimal(str) ==
    LET digits == IF str # <<>> /\ Head(str) \in {"+", "-"} THEN Tail(str) ELSE str
    IN digits # <<>> /\ \A i \in 1..Len(digits) : IsDigit(digits[i])

IsNegative(str) ==
    /\ IsDecimal(str)
    /\ Head(str) = "-"
    /\ \E i \in 2..Len(str) : str[i] # "0"

\* The first line of the peer's bytes, when it ends in CR LF.
FirstLine ==
    LET ends == {i \in 2..Len(wire) : wire[i - 1] = "\r" /\ wire[i] = "\n"}
        lfs == {i \in 1..Len(wire) : wire[i] = "\n"}
        e == CHOOSE i \in lfs : \A j \in lfs : i <= j
    IN IF lfs # {} /\ e \in ends THEN SubSeq(wire, 1, e - 2) ELSE <<>>

\* C10: decoding a header `*<N>` (readArray) or `$<N>` (readBulk) whose N is no
\* decimal integer, or is negative (a bulk length of -1 aside), returns an
\* error: no panic, and no value.
C10_MalformedCountRejected ==
    (/\ origin = "peer"
     /\ dec.via # "none"
     /\ dec.start = 1
     /\ FirstLine # <<>>
     /\ Head(FirstLine) = (IF dec.via = "readArray" THEN "*" ELSE "$")
     /\ \/ ~IsDecimal(Tail(FirstLine))
        \/ /\ IsNegative(Tail(FirstLine))
           /\ ~(dec.via = "readBulk" /\ Tail(FirstLine) = <<"-", "1">>))
    => dec.err = "err"

\* The position of the line feed that ends the line starting at pos in s.
LineEnd(s, pos) ==
    CHOOSE i \in pos..Len(s) : s[i] = "\n" /\ \A j \in pos..(i - 1) : s[j] # "\n"

\* C11: a readBulk that succeeds on `$<N>`, N >= 0, returns the N bytes after
\* the header line as they are, those N bytes are followed by CR LF, and the
\* read position ends just past that CR LF (header + N + 2 bytes consumed); on
\* `$-1` it returns Null and consumes the header line alone.
C11_BulkFraming ==
    (dec.via = "readBulk" /\ dec.err = "nil") =>
      LET h == LineEnd(wire, dec.start)
          n == Atoi(SubSeq(wire, dec.start + 1, h - 2)).n
      IN /\ wire[dec.start] = "$"
         /\ wire[h - 1] = "\r"
         /\ IF n >= 0
              THEN /\ dec.val = BulkValue(SubSeq(wire, h + 1, h + n))
                   /\ h + n + 2 <= Len(wire)
                   /\ SubSeq(wire, h + n + 1, h + n + 2) = CRLF
                   /\ rpos = h + n + 3
              ELSE /\ n = -1
                   /\ dec.val = NullValue
                   /\ rpos = h + 1

\* The elements readArray reads: Bulk Strings and Nulls.
BulkElems == {e \in ElemValues : e.Type \in {Bulk, Null}}

RECURSIVE EncodeAll(_)
EncodeAll(a) == IF a = <<>> THEN <<>> ELSE Encoding(Head(a)) \o EncodeAll(Tail(a))

\* The streams of an Array header announcing N elements and fewer than N well
\* formed elements, up to the place where the next element's header starts.
ArrayFronts ==
    {<<"*">> \o FormatInt(n) \o CRLF \o EncodeAll(a) :
       n \in 1..MaxArrayLen, a \in SeqsUpTo(BulkElems, MaxArrayLen - 1)}
      \ {<<"*">> \o FormatInt(Len(a)) \o CRLF \o EncodeAll(a) :
           a \in SeqsUpTo(BulkElems, MaxArrayLen - 1)}

IsPrefix(s, t) == Len(s) <= Len(t) /\ s = SubSeq(t, 1, Len(s))

\* The stream ends before the value the decoder via reads is complete.
Truncated(via) ==
    \/ via = "readBulk" /\ wire \in CutBulks
    \/ via = "readArray" /\ wire \in CutArrays

\* A header line (the first one, or the one of an Array's next element) starts
\* with another byte than the sigil expected there.
MisSigiled(via) ==
    \/ /\ wire # <<>>
       /\ wire[1] # (IF via = "readArray" THEN "*" ELSE "$")
    \/ /\ via = "readArray"
       /\ \E f \in ArrayFronts :
            /\ IsPrefix(f, wire)
            /\ Len(wire) > Len(f)
            /\ wire[Len(f) + 1] # "$"

\* C12: a decode of a stream that ends before the value is complete (inside a
\* header line, inside a bulk payload or its terminator, before all the
\* elements of an Array) or of a stream with a header line whose first byte is
\* not the expected sigil returns an error, and the value is not marked Array.
C12_TruncatedOrMisSigiledFails ==
    (/\ dec.via # "none"
     /\ dec.start = 1
     /\ Truncated(dec.via) \/ MisSigiled(dec.via))
    => /\ dec.err = "err"
       /\ dec.val.Type # Array

\* C12's case: an Array of two cut inside its second element; the first
\* element was read and the value is left unmarked.
C12_Witness ==
    /\ dec.via = "readArray"
    /\ dec.start = 1
    /\ wire \in CutArrays
    /\ dec.err = "err"
    /\ Len(dec.val.Array) = 2
    /\ dec.val.Array[1] = BulkValue(<<"a">>)
    /\ dec.val.Type # Array

\* C13: once Write(val) has returned an error, none of val's bytes are in the
\* buffer, and none reach the wire by a later Flush.
C13_NothingHalfWritten ==
    werr => (wbuf = <<>> /\ wire = <<>>)

\* Set(call[p]) would grow the usage the store had when p locked it: the key
\* is new, or its new record is estimated above its old one.
WouldGrow(p) ==
    \/ call[p].key \notin DOMAIN entry[p].store
    \/ approxMemUsage(NewItem(call[p].val), call[p].key)
         > approxMemUsage(Rec(entry[p].store, entry[p].heap, call[p].key),
                          call[p].key)

\* C14: with the policy no-eviction, a ceiling configured (maxmem non-zero)
\* and MemUsed() above it, a Set that would grow the usage leaves the store's
\* keys, their values and MemUsed() as it found them (it reports OutOfMemory
\* instead of storing).
C14_OutOfMemory ==
    \A p \in Procs :
      (/\ pc[p] = "set_ret"
       /\ conf.eviction = NoEviction
       /\ conf.maxmem # 0
       /\ entry[p].memUsed > conf.maxmem
       /\ WouldGrow(p))
      => /\ DOMAIN store = DOMAIN entry[p].store
         /\ \A k \in DOMAIN store :
              Rec(store, heap, k).Value = Rec(entry[p].store, entry[p].heap, k).Value
         /\ memUsed = entry[p].memUsed

\* C17: in every state, whoever holds the store's lock, a MemUsed() call that
\* has started can take its single step: it returns the counter's current
\* value and leaves the lock, the store, the counter and every other caller's
\* position as they are.
C17_MemUsedNeverWaits ==
    \A p \in Procs :
      pc[p] = "mem_load" =>
        ENABLED (/\ MemUsed(p)
                 /\ pc'[p] = "idle"
                 /\ ret'[p].mem = memUsed
                 /\ rwm' = rwm
                 /\ store' = store
                 /\ memUsed' = memUsed
                 /\ \A q \in Procs \ {p} : pc'[q] = pc[q])

\* C17's case: q is inside an overwriting Set, between taking the old record's
\* estimate off and adding the new one's, and p's MemUsed() has returned the
\* counter q left there.
C17_Witness ==
    \E p, q \in Procs :
      /\ p # q
      /\ rwm = {q}
      /\ pc[q] = "set_new"
      /\ memUsed # entry[q].memUsed
      /\ pc[p] = "idle"
      /\ ret[p].op = "MemUsed"
      /\ ret[p].mem = memUsed

\* The instants a record is asked about: those the clock takes, and one past.
Instants == 0..(MaxClock + 1)

\* C18: hasExpired reports a record expired at the time t exactly when its
\* expiry is not the "no expiry" sentinel and t is at or past the expiry; and
\* a record as Set created it (no caller has obtained it since) carries the
\* sentinel and is reported expired at no time.
C18_ExpirationCheck ==
    \A a \in 1..Len(heap) :
      /\ \A t \in Instants :
           hasExpired(heap[a], t)
             <=> (heap[a].Expiration # unixTSEpoch /\ t >= heap[a].Expiration)
      /\ hits[a] = 0 =>
           /\ heap[a].Expiration = unixTSEpoch
           /\ \A t \in Instants : ~hasExpired(heap[a], t)

\* C18's case: at time 1 a record whose expiry a caller set to 0 is reported
\* expired, and a record Set created since is not.
C18_Witness ==
    \E a, b \in 1..Len(heap) :
      /\ now = 1
      /\ heap[a].Expiration = 0
      /\ hasExpired(heap[a], now)
      /\ ~hasExpired(heap[a], -1)
      /\ hits[b] = 0
      /\ ~hasExpired(heap[b], now)

\* C19: the record a caller holds from a Get that found its key is the
\* caller's own: no step of another caller changes it.
C19_ExclusiveOwnership ==
    [][\A p \in Procs :
         (/\ pc[p] = "idle"
          /\ ret[p].op = "Get"
          /\ ret[p].ok
          /\ pc'[p] = "idle"
          /\ ret'[p] = ret[p])
         => heap'[ret[p].item] = heap[ret[p].item]]_vars

\* C20: a Get of an absent key returns (nil, false) and leaves the store, its
\* records and MemUsed() as it found them; a Get of a present key leaves the
\* key set, every record's value and expiry, every other record and MemUsed()
\* as it found them, and changes its record's LastAccess and AccessCount only.
C20_GetFrame ==
    \A p \in Procs :
      /\ pc[p] = "get_miss" =>
           /\ call[p].key \notin DOMAIN entry[p].store
           /\ store = entry[p].store
           /\ heap = entry[p].heap
           /\ memUsed = entry[p].memUsed
      /\ (pc[p] = "idle" /\ ret[p].op = "Get" /\ ~ret[p].ok) => ret[p].item = Nil
      /\ pc[p] = "get_ret" =>
           /\ call[p].key \in DOMAIN entry[p].store
           /\ store = entry[p].store
           /\ memUsed = entry[p].memUsed
           /\ Len(heap) = Len(entry[p].heap)
           /\ item[p] = store[call[p].key]
           /\ \A a \in 1..Len(heap) :
                /\ heap[a].Value = entry[p].heap[a].Value
                /\ heap[a].Expiration = entry[p].heap[a].Expiration
                /\ a # item[p] => heap[a] = entry[p].heap[a]
           /\ heap[item[p]].AccessCount # entry[p].heap[item[p]].AccessCount

\* C20's case: with "a" and "bb" stored, a Get("a") is about to return its
\* record, touched, and "bb"'s record is as it was.
C20_Witness ==
    \E p \in Procs :
      /\ pc[p] = "get_ret"
      /\ call[p].key = "a"
      /\ DOMAIN store = {"a", "bb"}
      /\ heap[store["a"]].AccessCount = 1
      /\ heap[store["a"]].LastAccess = now
      /\ heap[store["bb"]] = entry[p].heap[store["bb"]]
      /\ heap[store["bb"]].AccessCount = 0

\* C21: under fair scheduling every call of Set, Get, Delete and MemUsed
\* that has started returns, and the lock is free whenever no call is in
\* progress (every return path, early ones included, releases it).
C21_EveryCallReturns ==
    /\ []((\A p \in Procs : pc[p] = "idle") => rwm = {})
    /\ \A p \in Procs : (pc[p] # "idle") ~> (pc[p] = "idle")

\* C21's case: p's Get of an absent key has returned early, and q, which
\* was waiting for the lock, holds it.
C21_Witness ==
    \E p, q \in Procs :
      /\ p # q
      /\ pc[p] = "idle"
      /\ ret[p].op = "Get"
      /\ ~ret[p].ok
      /\ rwm = {q}
      /\ pc[q] \in {"set_old", "get_lookup", "del_lookup"}

\* C22: in every reachable state the counter has not wrapped (it is held by
\* its signed representative: a wrap shows as a negative value), each
\* subtraction Set or Delete is about to make takes no more than the value it
\* loaded, and the counter is 0 exactly when the store is empty.
C22_CounterNeverWraps ==
    /\ memUsed >= 0
    /\ \A p \in Procs :
         pc[p] \in {"set_sub", "del_sub"} =>
           prev[p] >= approxMemUsage(heap[item[p]], call[p].key)
    /\ memUsed = 0 <=> DOMAIN store = {}

\* C22, amended: in every reachable state the counter has not wrapped and
\* each subtraction Set or Delete is about to make takes no more than the
\* value it loaded; and whenever no call holds the lock, the counter is 0
\* exactly when the store is empty.
C22_CounterNeverWrapsQuiescent ==
    /\ memUsed >= 0
    /\ \A p \in Procs :
         pc[p] \in {"set_sub", "del_sub"} =>
           prev[p] >= approxMemUsage(heap[item[p]], call[p].key)
    /\ rwm = {} => (memUsed = 0 <=> DOMAIN store = {})

\* C22's case: Set("a", v), a Set("a", w) over it and Delete("a") have
\* returned: both subtractions were made and the counter is back at 0.
C22_Witness ==
    /\ rwm = {}
    /\ calls = 3
    /\ Len(heap) = 2
    /\ DOMAIN store = {}
    /\ memUsed = 0

====
